---- MODULE Spec2Model ----
(***************************************************************************)
(* Model of the bytecode interpreter: scanner (scanner.rs), Pratt compiler *)
(* (compiler.rs), chunk and disassembler (chunk.rs), values (value.rs) and *)
(* the stack VM (vm.rs).                                                   *)
(*                                                                         *)
(* Conventions                                                             *)
(*  - Rust indices are 0-based, TLA+ sequences 1-based: element i of a Vec *)
(*    is seq[i + 1].                                                       *)
(*  - Option::None is the value None (tokens: NoToken).                    *)
(*  - A Rust panic (index out of bounds, arithmetic overflow in a build    *)
(*    with overflow checks) ends the call with status PanicIndex or        *)
(*    PanicOverflow.                                                       *)
(*  - `usize`/`u8` subtraction that underflows panics in a build with      *)
(*    overflow checks and wraps in a build without; the parameter `checks` *)
(*    of the operators concerned selects the build.                        *)
(*  - f64 numbers are sign/magnitude rationals [s, n, d]: d = 0 /\ n = 1   *)
(*    is an infinity, d = 0 /\ n = 0 is NaN, n = 0 /\ d = 1 a signed zero. *)
(*    Rounding and exponent overflow of f64 are not modelled.              *)
(***************************************************************************)
EXTENDS Integers, Sequences, FiniteSets, TLC

None == "None"

\* the two kinds of Rust panic the program can raise
PanicIndex == "panic: index out of bounds"
PanicOverflow == "panic: arithmetic overflow"
Panicked(status) == status \in {PanicIndex, PanicOverflow}

\* number of values of a u8
U8Range == 256

\* ------------------------------------------------------------------------
\* Bounds of the model
\* ------------------------------------------------------------------------
MaxSrcLen == 5
MaxOps == 6
MaxLiterals == 257
MaxLogicOps == 5
MaxBangLen == 3
MaxReuseOps == 2
MaxScanLen == 4
MaxScanExtra == 3
MaxFileSrcLen == 3
MaxCompileLen == 4

\* ------------------------------------------------------------------------
\* f64 arithmetic (value.rs: pub type Number = f64)
\* ------------------------------------------------------------------------
RECURSIVE Gcd(_, _)
Gcd(a, b) == IF b = 0 THEN a ELSE Gcd(b, a % b)

NaN == [s |-> 1, n |-> 0, d |-> 0]

IsNaN(x) == x.n = 0 /\ x.d = 0

Norm(s, n, d) ==
    IF n = 0 /\ d = 0 THEN NaN
    ELSE LET g == Gcd(n, d) IN [s |-> s, n |-> n \div g, d |-> d \div g]

NumInt(i) == [s |-> 1, n |-> i, d |-> 1]

NumNeg(x) == IF IsNaN(x) THEN x ELSE [x EXCEPT !.s = -(x.s)]

NumMul(x, y) == Norm(x.s * y.s, x.n * y.n, x.d * y.d)

NumRecip(x) == [s |-> x.s, n |-> x.d, d |-> x.n]

NumDiv(x, y) == NumMul(x, NumRecip(y))

NumAdd(x, y) ==
    IF IsNaN(x) \/ IsNaN(y) THEN NaN
    ELSE IF x.d = 0 /\ y.d = 0 THEN (IF x.s = y.s THEN x ELSE NaN)
    ELSE IF x.d = 0 THEN x
    ELSE IF y.d = 0 THEN y
    ELSE LET a == x.s * x.n * y.d + y.s * y.n * x.d
         IN IF a = 0
            THEN [s |-> IF x.s = -1 /\ y.s = -1 THEN -1 ELSE 1, n |-> 0, d |-> 1]
            ELSE Norm(IF a < 0 THEN -1 ELSE 1, IF a < 0 THEN -a ELSE a, x.d * y.d)

NumSub(x, y) == NumAdd(x, NumNeg(y))

\* rank of a non-NaN number among the extended reals: -inf < finite < +inf
NumLess(x, y) ==
    /\ ~IsNaN(x)
    /\ ~IsNaN(y)
    /\ IF x.d = 0 \/ y.d = 0
       THEN LET rx == IF x.d = 0 THEN x.s ELSE 0
                ry == IF y.d = 0 THEN y.s ELSE 0
            IN rx < ry
       ELSE x.s * x.n * y.d < y.s * y.n * x.d

NumGreater(x, y) == NumLess(y, x)

NumEq(x, y) ==
    /\ ~IsNaN(x)
    /\ ~IsNaN(y)
    /\ \/ x.n = 0 /\ y.n = 0 /\ x.d = 1 /\ y.d = 1
       \/ x = y

\* `f64 as u8`: saturating cast, truncating toward zero, NaN to 0
NumAsU8(x) ==
    IF IsNaN(x) THEN 0
    ELSE IF x.s = -1 THEN 0
    ELSE IF x.d = 0 THEN 255
    ELSE LET q == x.n \div x.d IN IF q > 255 THEN 255 ELSE q

\* ------------------------------------------------------------------------
\* Values (value.rs)
\* ------------------------------------------------------------------------
\* The payload is a union: `active` names the field that was written.
from_bool(b) ==
    [value_type |-> "ValBool",
     as_union |-> [active |-> "boolean", boolean |-> b, number |-> NumInt(0)]]

from_nil ==
    [value_type |-> "ValNil",
     as_union |-> [active |-> "number", boolean |-> FALSE, number |-> NumInt(0)]]

from_number(x) ==
    [value_type |-> "ValNumber",
     as_union |-> [active |-> "number", boolean |-> FALSE, number |-> x]]

is_bool(v) == v.value_type = "ValBool"

is_nil(v) == v.value_type = "ValNil"

is_number(v) == v.value_type = "ValNumber"

\* Reading the union field that was not written is undefined behaviour:
\* the result is the caller-supplied arbitrary number `garbage`.
as_number(v, garbage) ==
    IF v.as_union.active = "number" THEN v.as_union.number ELSE garbage

as_bool(v, garbage) ==
    IF v.as_union.active = "boolean" THEN v.as_union.boolean ELSE garbage

\* arbitrary results of a union misread
GarbageNumbers == {NumInt(0), NaN}

\* ------------------------------------------------------------------------
\* Instruction set (chunk.rs, vm.rs)
\* ------------------------------------------------------------------------
OpReturn == 0
OpConstant == 1
OpNegate == 2
OpAdd == 3
OpSubtract == 4
OpMultiply == 5
OpDivide == 6
\* Opcodes that vm.rs dispatches on but chunk.rs under src/ does not declare;
\* their numbering continues the enumeration in the order of the
\* specification's instruction list.
OpNil == 7
OpTrue == 8
OpFalse == 9
OpNot == 10
OpGreater == 11
OpLess == 12
OpEqual == 13

ExtendedOps == {"OpNil", "OpTrue", "OpFalse", "OpNot", "OpGreater", "OpLess", "OpEqual"}

\* decoding of the opcodes chunk.rs does not declare
byte_to_op_extended(byte) ==
    CASE byte = OpNil -> "OpNil"
      [] byte = OpTrue -> "OpTrue"
      [] byte = OpFalse -> "OpFalse"
      [] byte = OpNot -> "OpNot"
      [] byte = OpGreater -> "OpGreater"
      [] byte = OpLess -> "OpLess"
      [] byte = OpEqual -> "OpEqual"
      [] OTHER -> "Err"

\* byte_to_op that takes a byte outside the instruction set for RETURN
byte_to_op_lenient(byte) ==
    IF byte \in 0..6
    THEN <<"OpReturn", "OpConstant", "OpNegate", "OpAdd", "OpSubtract", "OpMultiply",
           "OpDivide">>[byte + 1]
    ELSE IF byte_to_op_extended(byte) = "Err" THEN "OpReturn"
         ELSE byte_to_op_extended(byte)

\* Ok(op) is the name of the opcode, Err(..) is "Err"
byte_to_op(byte) ==
    CASE byte = 0 -> "OpReturn"
      [] byte = 1 -> "OpConstant"
      [] byte = 2 -> "OpNegate"
      [] byte = 3 -> "OpAdd"
      [] byte = 4 -> "OpSubtract"
      [] byte = 5 -> "OpMultiply"
      [] byte = 6 -> "OpDivide"
      [] OTHER -> byte_to_op_extended(byte)

\* ------------------------------------------------------------------------
\* Chunk (chunk.rs)
\* ------------------------------------------------------------------------
NewChunk == [code |-> <<>>, constants |-> <<>>, lines |-> <<>>]

\* write_byte that records no line
write_byte_no_line(chunk, byte, line) == [chunk EXCEPT !.code = Append(@, byte)]

write_byte(chunk, byte, line) ==
    [chunk EXCEPT !.lines = Append(@, line), !.code = Append(@, byte)]

write_instruction(chunk, instruction, line) ==
    [chunk EXCEPT !.lines = Append(@, line), !.code = Append(@, instruction)]

\* `self.constants.len() as u8 - 1`: the cast truncates to 8 bits, the
\* subtraction underflows when the truncated length is 0.
add_constant(chunk, constant, checks) ==
    LET pushed == [chunk EXCEPT !.constants = Append(@, constant)]
        len8 == Len(pushed.constants) % U8Range
    IN IF len8 = 0
       THEN IF checks
            THEN [status |-> PanicOverflow, chunk |-> pushed, index |-> 0]
            ELSE [status |-> "ok", chunk |-> pushed, index |-> U8Range - 1]
       ELSE [status |-> "ok", chunk |-> pushed, index |-> len8 - 1]

simple_instruction(offset) == offset + 1

\* constant_instruction that steps over the opcode only
constant_instruction_short(chunk, offset) ==
    [status |-> "ok", next |-> offset + 1]

constant_instruction(chunk, offset) ==
    IF offset + 1 >= Len(chunk.code) THEN [status |-> PanicIndex, next |-> offset]
    ELSE IF chunk.code[offset + 2] >= Len(chunk.constants)
         THEN [status |-> PanicIndex, next |-> offset]
         ELSE [status |-> "ok", next |-> offset + 2]

\* disassembly of the opcodes chunk.rs does not declare: one byte each
dissasemble_extended(offset) == [status |-> "ok", next |-> simple_instruction(offset)]

dissasemble_instruction(chunk, offset) ==
    IF offset >= Len(chunk.lines) THEN [status |-> PanicIndex, next |-> offset]
    ELSE IF offset >= Len(chunk.code) THEN [status |-> "err", next |-> offset]
    ELSE LET instruction == byte_to_op(chunk.code[offset + 1])
         IN IF instruction = "Err" THEN [status |-> "err", next |-> offset]
            ELSE IF instruction = "OpConstant" THEN constant_instruction(chunk, offset)
            ELSE IF instruction \in ExtendedOps THEN dissasemble_extended(offset)
            ELSE [status |-> "ok", next |-> simple_instruction(offset)]

\* the loop of Chunk::dissasemble: d is [offset, status]; at most n iterations,
\* evaluated by halving so that a long chunk does not nest the evaluation
\* as deep as it is long
RECURSIVE dissasemble_iterations(_, _, _)
dissasemble_iterations(chunk, d, n) ==
    IF d.status # "ok" \/ ~(d.offset < Len(chunk.code)) THEN d
    ELSE IF n = 1
         THEN LET r == dissasemble_instruction(chunk, d.offset)
              IN [offset |-> r.next, status |-> r.status]
         ELSE dissasemble_iterations(chunk, dissasemble_iterations(chunk, d, n \div 2),
                                     n - (n \div 2))

\* "ok", or the "err" / panic that ended the listing
dissasemble(chunk) ==
    dissasemble_iterations(chunk, [offset |-> 0, status |-> "ok"], Len(chunk.code) + 1).status

\* ------------------------------------------------------------------------
\* Standard output
\* ------------------------------------------------------------------------
\* One printed item.  kind: "value" (Value::print by RETURN), "message" (a
\* runtime message), "line" (the "[line n] in script" line), "diagnostic"
\* (a compile diagnostic; `at` is <<"end">>, <<>> or <<"at", lexeme>>).
\* `consumed` is not printed: it records how many tokens the compiler had
\* consumed when the diagnostic was printed.  The execution trace text
\* (stack dump, disassembly listing) is not recorded.
Printed(kind, text, line, value, at, consumed) ==
    [kind |-> kind, text |-> text, line |-> line, value |-> value, at |-> at,
     consumed |-> consumed]

PrintValue(v) == Printed("value", "", 0, v, <<>>, 0)

PrintMessage(text) == Printed("message", text, 0, from_nil, <<>>, 0)

PrintLine(line) == Printed("line", "in script", line, from_nil, <<>>, 0)

\* ------------------------------------------------------------------------
\* Virtual machine (vm.rs)
\* ------------------------------------------------------------------------
DEBUG_TRACE_EXECUTION == TRUE

\* The machine during Vm::run: the Vm fields chunk (Option as a sequence of
\* length 0 or 1), stack (front of the VecDeque first) and ip, the local
\* `offset` of run, the output, and status: "run" while the loop goes on,
\* else the way the call ended ("Ok", "InterpretRuntimeError", a panic).
NewVm == [chunk |-> <<>>, stack |-> <<>>, ip |-> 0]

push_stack(stack, value) == <<value>> \o stack

pop_stack(stack) ==
    IF stack = <<>>
    THEN [some |-> FALSE, value |-> from_nil, stack |-> stack]
    ELSE [some |-> TRUE, value |-> Head(stack), stack |-> Tail(stack)]

\* self.stack.get(self.stack.len() - (distance + 1)): index counted from the
\* front of the deque; the usize subtraction underflows on a short stack.
peek_stack(stack, distance, checks) ==
    IF Len(stack) < distance + 1
    THEN IF checks
         THEN [status |-> PanicOverflow, some |-> FALSE, value |-> from_nil]
         ELSE [status |-> "ok", some |-> FALSE, value |-> from_nil]
    ELSE [status |-> "ok", some |-> TRUE,
          value |-> stack[Len(stack) - (distance + 1) + 1]]

\* is_falsey that also takes the number zero for falsey
is_falsey_zero(value) ==
    \/ is_nil(value)
    \/ is_bool(value) /\ ~as_bool(value, FALSE)
    \/ is_number(value) /\ NumEq(as_number(value, NaN), NumInt(0))

is_falsey(value) == is_nil(value) \/ (is_bool(value) /\ ~as_bool(value, FALSE))

\* values_equal without the comparison of the kinds
values_equal_untyped(a, b) == NumEq(a.as_union.number, b.as_union.number)

values_equal(a, b) ==
    IF a.value_type # b.value_type THEN FALSE
    ELSE CASE a.value_type = "ValBool" -> as_bool(a, FALSE) = as_bool(b, FALSE)
           [] a.value_type = "ValNil" -> TRUE
           [] a.value_type = "ValNumber" ->
                NumEq(as_number(a, NaN), as_number(b, NaN))

reset_stack(m) == [m EXCEPT !.stack = <<>>]

\* prints the message, then chunk.lines[self.ip] (panics when ip is past the
\* table), then clears the stack
runtime_error(m, msg) ==
    LET m1 == [m EXCEPT !.out = Append(@, PrintMessage(msg))]
    IN IF m1.chunk # <<>>
       THEN IF m1.ip >= Len(m1.chunk[1].lines)
            THEN [m1 EXCEPT !.status = PanicIndex]
            ELSE reset_stack([m1 EXCEPT !.out =
                                 Append(@, PrintLine(m1.chunk[1].lines[m1.ip + 1]))])
       ELSE reset_stack(m1)

\* runtime_error(..) followed by `return Err(InterpretRuntimeError)`
Fail(m, msg) ==
    LET m1 == runtime_error(m, msg)
    IN IF Panicked(m1.status) THEN m1 ELSE [m1 EXCEPT !.status = "InterpretRuntimeError"]

read_byte(m) ==
    IF m.chunk # <<>>
    THEN IF m.ip >= Len(m.chunk[1].code)
         THEN [m |-> [m EXCEPT !.status = PanicIndex], byte |-> 0]
         ELSE [m |-> [m EXCEPT !.ip = @ + 1], byte |-> m.chunk[1].code[m.ip + 1]]
    ELSE [m |-> [m EXCEPT !.status = "InterpretRuntimeError"], byte |-> 0]

\* read_constant that leaves the instruction pointer on the operand byte
read_constant_staying(m) ==
    IF m.chunk # <<>> /\ m.ip < Len(m.chunk[1].code)
                      /\ m.chunk[1].code[m.ip + 1] < Len(m.chunk[1].constants)
    THEN [m |-> m, constant |-> m.chunk[1].constants[m.chunk[1].code[m.ip + 1] + 1]]
    ELSE [m |-> [m EXCEPT !.status = PanicIndex], constant |-> from_nil]

read_constant(m) ==
    IF m.chunk # <<>>
    THEN IF m.ip >= Len(m.chunk[1].code)
         THEN [m |-> [m EXCEPT !.status = PanicIndex], constant |-> from_nil]
         ELSE IF m.chunk[1].code[m.ip + 1] >= Len(m.chunk[1].constants)
              THEN [m |-> [m EXCEPT !.status = PanicIndex], constant |-> from_nil]
              ELSE [m |-> [m EXCEPT !.ip = @ + 1],
                    constant |-> m.chunk[1].constants[m.chunk[1].code[m.ip + 1] + 1]]
    ELSE [m |-> [m EXCEPT !.status = "InterpretRuntimeError"], constant |-> from_nil]

ArithResult(operation, b, a) ==
    CASE operation = "OpAdd" -> from_number(NumAdd(b, a))
      [] operation = "OpSubtract" -> from_number(NumSub(b, a))
      [] operation = "OpMultiply" -> from_number(NumMul(b, a))
      [] operation = "OpDivide" -> from_number(NumDiv(b, a))
      [] operation = "OpGreater" -> from_bool(NumGreater(b, a))
      [] operation = "OpLess" -> from_bool(NumLess(b, a))

\* macro binary_operation!: ga, gb are what a union misread of a, b yields
binary_operation(m, operation, checks, ga, gb) ==
    LET p0 == peek_stack(m.stack, 0, checks)
        p1 == peek_stack(m.stack, 1, checks)
    IN IF p0.status # "ok" THEN [m EXCEPT !.status = p0.status]
       ELSE IF p1.status # "ok" THEN [m EXCEPT !.status = p1.status]
       ELSE IF p0.some /\ p1.some
            THEN IF ~is_number(p0.value) \/ ~is_number(p1.value)
                 THEN Fail(m, "Operands must be numbers.")
                 ELSE LET a == pop_stack(m.stack)
                          b == pop_stack(a.stack)
                      IN [m EXCEPT !.stack =
                             push_stack(b.stack,
                                        ArithResult(operation, as_number(b.value, gb),
                                                    as_number(a.value, ga)))]
            ELSE Fail(m, "Operands missing.")

negate(m, checks, ga) ==
    LET p0 == peek_stack(m.stack, 0, checks)
    IN IF p0.status # "ok" THEN [m EXCEPT !.status = p0.status]
       ELSE IF p0.some
            THEN IF ~is_number(p0.value)
                 THEN Fail(m, "Operand must be number.")
                 ELSE LET value == pop_stack(m.stack)
                      IN [m EXCEPT !.stack =
                             push_stack(value.stack,
                                        from_number(NumNeg(as_number(value.value, ga))))]
            ELSE m

\* the arms of `match operation` in Vm::run
dispatch(m, operation, checks, ga, gb) ==
    CASE operation = "OpReturn" ->
            LET value == pop_stack(m.stack)
            IN IF value.some
               THEN [m EXCEPT !.stack = value.stack,
                              !.out = Append(@, PrintValue(value.value)),
                              !.status = "Ok"]
               ELSE [m EXCEPT !.status = "Ok"]
      [] operation = "OpConstant" ->
            LET r == read_constant(m)
            IN IF r.m.status # "run" THEN r.m
               ELSE [r.m EXCEPT !.stack = push_stack(@, r.constant)]
      [] operation = "OpNil" -> [m EXCEPT !.stack = push_stack(@, from_nil)]
      [] operation = "OpTrue" -> [m EXCEPT !.stack = push_stack(@, from_bool(TRUE))]
      [] operation = "OpFalse" -> [m EXCEPT !.stack = push_stack(@, from_bool(FALSE))]
      [] operation = "OpNegate" -> negate(m, checks, ga)
      [] operation = "OpNot" ->
            LET value == pop_stack(m.stack)
            IN IF value.some
               THEN [m EXCEPT !.stack =
                        push_stack(value.stack, from_bool(is_falsey(value.value)))]
               ELSE m
      [] operation \in {"OpAdd", "OpSubtract", "OpMultiply", "OpDivide",
                        "OpGreater", "OpLess"} ->
            binary_operation(m, operation, checks, ga, gb)
      [] operation = "OpEqual" ->
            LET a == pop_stack(m.stack)
            IN IF a.some
               THEN LET b == pop_stack(a.stack)
                    IN IF b.some
                       THEN [m EXCEPT !.stack =
                                push_stack(b.stack,
                                           from_bool(values_equal(a.value, b.value)))]
                       ELSE [m EXCEPT !.stack = a.stack]
               ELSE m

\* the trace block at the head of the loop body
trace(m) ==
    IF DEBUG_TRACE_EXECUTION /\ m.chunk # <<>>
    THEN LET r == dissasemble_instruction(m.chunk[1], m.offset)
         IN CASE r.status = "ok" -> [m EXCEPT !.offset = r.next]
              [] r.status = "err" ->
                    [m EXCEPT !.out = Append(@, PrintMessage("[DISSASEMBLE]")),
                              !.status = "InterpretRuntimeError"]
              [] OTHER -> [m EXCEPT !.status = r.status]
    ELSE m

\* one iteration of the loop of Vm::run
\* `match byte_to_op(instruction)`; f is what read_byte() returned
execute(f, checks, ga, gb) ==
    IF f.m.status # "run" THEN f.m
    ELSE IF byte_to_op(f.byte) = "Err"
         THEN [f.m EXCEPT !.out = Append(@, PrintMessage("[RUNTIME]")),
                          !.status = "InterpretRuntimeError"]
         ELSE dispatch(f.m, byte_to_op(f.byte), checks, ga, gb)

\* the loop body after the trace block
fetch(t, checks, ga, gb) ==
    IF t.status # "run" THEN t ELSE execute(read_byte(t), checks, ga, gb)

run_iteration(m, checks, ga, gb) == fetch(trace(m), checks, ga, gb)

\* ------------------------------------------------------------------------
\* Scanner (scanner.rs)
\* ------------------------------------------------------------------------
\* A character is a one-character string; NUL is the byte 0, NoChar is the
\* Option::None of peek()/peek_next().
NUL == "NUL"
NoChar == "NoChar"
NL == "\n"

Digits == {"0", "1", "2", "3", "4", "5", "6", "7", "8", "9"}

Letters ==
    {"a", "b", "c", "d", "e", "f", "g", "h", "i", "j", "k", "l", "m", "n", "o",
     "p", "q", "r", "s", "t", "u", "v", "w", "x", "y", "z",
     "A", "B", "C", "D", "E", "F", "G", "H", "I", "J", "K", "L", "M", "N", "O",
     "P", "Q", "R", "S", "T", "U", "V", "W", "X", "Y", "Z", "_"}

DigitValue ==
    ("0" :> 0) @@ ("1" :> 1) @@ ("2" :> 2) @@ ("3" :> 3) @@ ("4" :> 4) @@
    ("5" :> 5) @@ ("6" :> 6) @@ ("7" :> 7) @@ ("8" :> 8) @@ ("9" :> 9)

get_keywords ==
    (<<"a", "n", "d">> :> "And") @@
    (<<"c", "l", "a", "s", "s">> :> "Class") @@
    (<<"e", "l", "s", "e">> :> "Else") @@
    (<<"f", "a", "l", "s", "e">> :> "False") @@
    (<<"f", "o", "r">> :> "For") @@
    (<<"f", "u", "n">> :> "Fun") @@
    (<<"i", "f">> :> "If") @@
    (<<"n", "i", "l">> :> "Nil") @@
    (<<"o", "r">> :> "Or") @@
    (<<"p", "r", "i", "n", "t">> :> "Print") @@
    (<<"r", "e", "t", "u", "r", "n">> :> "Return") @@
    (<<"s", "u", "p", "e", "r">> :> "Super") @@
    (<<"t", "h", "i", "s">> :> "This") @@
    (<<"t", "r", "u", "e">> :> "True") @@
    (<<"v", "a", "r">> :> "Var") @@
    (<<"w", "h", "i", "l", "e">> :> "While")

\* An error token carries its message as the only element of `lexeme`.
Token(ttype, lexeme, line) == [ttype |-> ttype, lexeme |-> lexeme, line |-> line]

NoToken == Token("None", <<>>, 0)

NewScanner(source) == [start |-> 0, current |-> 0, line |-> 1, source |-> source]

is_digit(c) == c \in Digits

is_alpha(c) == c \in Letters

peek(s) == IF s.current < Len(s.source) THEN s.source[s.current + 1] ELSE NoChar

is_at_end(s) == IF peek(s) # NoChar THEN peek(s) = NUL ELSE TRUE

peek_next(s) ==
    IF is_at_end(s) THEN NUL
    ELSE IF s.current + 1 < Len(s.source) THEN s.source[s.current + 2] ELSE NoChar

\* advance that steps over two bytes
scanner_advance_twice(s) == [s EXCEPT !.current = @ + 2]

\* Scanner::advance (the returned character is peek(s) of the state before)
scanner_advance(s) == [s EXCEPT !.current = @ + 1]

match_char(s, expected) ==
    IF is_at_end(s) THEN [matched |-> FALSE, scanner |-> s]
    ELSE IF peek(s) = expected
         THEN [matched |-> TRUE, scanner |-> [s EXCEPT !.current = @ + 1]]
         ELSE [matched |-> FALSE, scanner |-> s]

error_token(s, message) == Token("Error", <<message>>, s.line)

make_token(s, ttype) ==
    IF s.start <= s.current /\ s.current <= Len(s.source)
    THEN Token(ttype, SubSeq(s.source, s.start + 1, s.current), s.line)
    ELSE error_token(s, "Token lexeme out of bounds.")

\* while self.peek() != Some('\n') && !self.is_at_end() { self.advance(); }
RECURSIVE skip_line_comment(_)
skip_line_comment(s) ==
    IF peek(s) # NL /\ ~is_at_end(s) THEN skip_line_comment(scanner_advance(s)) ELSE s

\* while peek != '*' && peek_next != '/' && !is_at_end { advance }
RECURSIVE skip_block_comment(_)
skip_block_comment(s) ==
    IF peek(s) # "*" /\ peek_next(s) # "/" /\ ~is_at_end(s)
    THEN skip_block_comment(scanner_advance(s))
    ELSE s

RECURSIVE skip_whitespace(_)
skip_whitespace(s) ==
    LET c == peek(s)
    IN CASE c \in {" ", "\r", "\t"} -> skip_whitespace(scanner_advance(s))
         [] c = NL -> skip_whitespace(scanner_advance([s EXCEPT !.line = @ + 1]))
         [] c = "/" ->
               (CASE peek_next(s) = "/" -> skip_whitespace(skip_line_comment(s))
                  [] peek_next(s) = "*" ->
                        skip_whitespace(scanner_advance(skip_block_comment(s)))
                  [] OTHER -> s)
         [] OTHER -> s

RECURSIVE string_body(_)
string_body(s) ==
    IF peek(s) # "\"" /\ ~is_at_end(s)
    THEN string_body(scanner_advance(IF peek(s) = NL THEN [s EXCEPT !.line = @ + 1]
                                                      ELSE s))
    ELSE s

\* a scanner together with the token make_token builds from it
made(s, ttype) == [scanner |-> s, token |-> make_token(s, ttype)]

\* string_end that takes the end of the input for the closing quote
string_end_lenient(s1) == made(scanner_advance(s1), "String")

\* Scanner::string after its loop
string_end(s1) ==
    IF is_at_end(s1)
    THEN [scanner |-> s1, token |-> error_token(s1, "Unterminated string.")]
    ELSE made(scanner_advance(s1), "String")

string(s) == string_end(string_body(s))

RECURSIVE skip_digits(_)
skip_digits(s) ==
    IF peek(s) # NoChar /\ is_digit(peek(s)) THEN skip_digits(scanner_advance(s)) ELSE s

\* Scanner::number after its first digit loop: the fractional part
number_fraction(s1) ==
    IF peek_next(s1) # NoChar /\ peek(s1) = "." /\ is_digit(peek_next(s1))
    THEN skip_digits(scanner_advance(s1))
    ELSE s1

number_token(s) == made(number_fraction(skip_digits(s)), "Number")

RECURSIVE skip_alnum(_)
skip_alnum(s) ==
    IF peek(s) # NoChar /\ (is_alpha(peek(s)) \/ is_digit(peek(s)))
    THEN skip_alnum(scanner_advance(s))
    ELSE s

\* Scanner::identifier after its loop: keyword lookup
identifier_end(s1) ==
    IF s1.start <= s1.current /\ s1.current <= Len(s1.source)
    THEN LET lexeme == SubSeq(s1.source, s1.start + 1, s1.current)
             ttype == IF lexeme \in DOMAIN get_keywords THEN get_keywords[lexeme]
                      ELSE "Identifier"
         IN [scanner |-> s1, token |-> Token(ttype, lexeme, s1.line)]
    ELSE [scanner |-> s1, token |-> error_token(s1, "Token lexeme out of bounds.")]

identifier(s) == identifier_end(skip_alnum(s))

SingleCharTokens ==
    ("(" :> "LeftParen") @@ (")" :> "RightParen") @@ ("{" :> "LeftBrace") @@
    ("}" :> "RightBrace") @@ (";" :> "Semicolon") @@ ("," :> "Comma") @@
    ("." :> "Dot") @@ ("-" :> "Minus") @@ ("+" :> "Plus") @@ ("/" :> "Slash") @@
    ("*" :> "Star")

\* '!' | '=' | '<' | '>' followed or not by '=': <<with '=', without>>
TwoCharTokens ==
    ("!" :> <<"BangEqual", "Bang">>) @@ ("=" :> <<"EqualEqual", "Equal">>) @@
    ("<" :> <<"LessEqual", "Less">>) @@ (">" :> <<"GreaterEqual", "Greater">>)

\* `match new_char { .. }` of scan_token; s3 is the scanner after advance()
scan_char(s3, new_char) ==
    CASE is_alpha(new_char) -> identifier(s3)
      [] is_digit(new_char) -> number_token(s3)
      [] new_char \in DOMAIN SingleCharTokens -> made(s3, SingleCharTokens[new_char])
      [] new_char \in DOMAIN TwoCharTokens ->
            LET r == match_char(s3, "=")
            IN made(r.scanner, IF r.matched THEN TwoCharTokens[new_char][1]
                               ELSE TwoCharTokens[new_char][2])
      [] new_char = "\"" -> string(s3)
      [] OTHER -> [scanner |-> s3, token |-> error_token(s3, "Unexpected character.")]

\* scan_start that consumes a character with the EOF token
scan_start_consuming(s1) ==
    IF is_at_end(s1) THEN made(scanner_advance([s1 EXCEPT !.start = s1.current]), "EOF")
    ELSE scan_char(scanner_advance([s1 EXCEPT !.start = s1.current]), peek(s1))

\* scan_token after skip_whitespace(): `self.start = self.current` and on
scan_start(s1) ==
    IF is_at_end(s1) THEN made([s1 EXCEPT !.start = s1.current], "EOF")
    ELSE scan_char(scanner_advance([s1 EXCEPT !.start = s1.current]), peek(s1))

scan_token(s) == scan_start(skip_whitespace(s))

\* ------------------------------------------------------------------------
\* Compiler (compiler.rs)
\* ------------------------------------------------------------------------
DEBUG_PRINT_CODE == TRUE

PrecNone == 0
PrecAssignment == 1
PrecTerm == 6
PrecFactor == 7
PrecUnary == 8
PrecPrimary == 10

rule(prefix, infix, precedence) ==
    [prefix |-> prefix, infix |-> infix, precedence |-> precedence]

\* the entries of RULES that are not rule!(None, None, Precedence::None)
RULES ==
    ("LeftParen" :> rule("grouping", None, PrecNone)) @@
    ("Minus" :> rule("unary", "binary", PrecTerm)) @@
    ("Plus" :> rule(None, "binary", PrecTerm)) @@
    ("Slash" :> rule(None, "binary", PrecFactor)) @@
    ("Star" :> rule(None, "binary", PrecFactor)) @@
    ("Number" :> rule("number", None, PrecNone))

get_rule(ttype) ==
    IF ttype \in DOMAIN RULES THEN RULES[ttype] ELSE rule(None, None, PrecNone)

\* Ok(p) is p, Err(..) is -1
byte_to_prec(byte) == IF byte \in 0..10 THEN byte ELSE -1

\* Compiler::new.  overflow_checks is the build profile, not a field of the
\* struct; status is "ok" until a panic; consumed counts the calls of
\* advance() that have returned, scans the calls of scanner.scan_token();
\* looping is set when a loop of the parser has not left by its own
\* condition within the iterations the model evaluates.
NewCompiler(source, checks) ==
    [current |-> NoToken, previous |-> NoToken, compiling_chunk |-> <<>>,
     compiling_file |-> <<>>, had_error |-> FALSE, panic_mode |-> FALSE,
     scanner |-> NewScanner(source), out |-> <<>>, status |-> "ok",
     consumed |-> 0, scans |-> 0, looping |-> FALSE, overflow_checks |-> checks]

error_at(c, token, message) ==
    IF c.status # "ok" \/ c.panic_mode THEN c
    ELSE [c EXCEPT !.out =
              Append(@, Printed("diagnostic", message, token.line, from_nil,
                                CASE token.ttype = "EOF" -> <<"end">>
                                  [] token.ttype = "Error" -> <<>>
                                  [] OTHER -> <<"at">> \o token.lexeme,
                                c.consumed)),
                    !.had_error = TRUE]

error_at_current(c, message) ==
    IF c.current # NoToken THEN error_at(c, c.current, message) ELSE c

\* the loop of Compiler::advance
RECURSIVE advance_loop(_)
\* one iteration, r being what scan_token() returned
scanned(c, r) ==
    IF r.token.ttype # "Error"
    THEN [c EXCEPT !.scanner = r.scanner, !.current = r.token, !.scans = @ + 1]
    ELSE advance_loop(error_at_current([c EXCEPT !.scanner = r.scanner,
                                                 !.current = r.token,
                                                 !.scans = @ + 1],
                                       r.token.lexeme[1]))

advance_loop(c) == scanned(c, scan_token(c.scanner))

advance(c) ==
    IF c.status # "ok" THEN c
    ELSE LET c1 == advance_loop([c EXCEPT !.previous = c.current, !.current = NoToken])
         IN [c1 EXCEPT !.consumed = @ + 1]

\* consume that reports nothing when the token is not the expected one
consume_silent(c, ttype, message) ==
    IF c.current # NoToken /\ c.current.ttype = ttype THEN advance(c) ELSE c

consume(c, ttype, message) ==
    IF c.current # NoToken /\ c.current.ttype = ttype THEN advance(c)
    ELSE error_at_current(c, message)

emit_byte(c, byte) ==
    IF c.status # "ok" \/ c.previous = NoToken THEN c
    ELSE [c EXCEPT !.compiling_chunk =
                       IF @ # <<>> THEN <<write_byte(@[1], byte, c.previous.line)>> ELSE @,
                   !.compiling_file =
                       IF @ # <<>> THEN <<Append(@[1], byte)>> ELSE @]

emit_bytes(c, byte_1, byte_2) == emit_byte(emit_byte(c, byte_1), byte_2)

\* emit_return that emits nothing
emit_return_nothing(c) == c

emit_return(c) == emit_byte(c, OpReturn)

\* Ok(index): status "ok"; Err(msg): status "err"; panic in add_constant
make_constant(c, value) ==
    IF c.compiling_chunk # <<>>
    THEN LET r == add_constant(c.compiling_chunk[1], value, c.overflow_checks)
         IN [status |-> r.status, constant |-> r.index,
             compiler |-> [c EXCEPT !.compiling_chunk = <<r.chunk>>,
                                    !.status = IF Panicked(r.status) THEN r.status ELSE @]]
    ELSE IF c.compiling_file # <<>>
         THEN [status |-> "ok", constant |-> NumAsU8(as_number(value, NaN)), compiler |-> c]
         ELSE [status |-> "err", constant |-> 0, compiler |-> c]

emit_constant(c, value) ==
    IF c.status # "ok" THEN c
    ELSE LET r == make_constant(c, value)
         IN CASE r.status = "ok" -> emit_bytes(r.compiler, OpConstant, r.constant)
              [] r.status = "err" ->
                    error_at_current(r.compiler, "No compiling chunk available.")
              [] OTHER -> r.compiler

RECURSIVE DigitsValue(_)
DigitsValue(digits) ==
    IF digits = <<>> THEN 0
    ELSE 10 * DigitsValue(SubSeq(digits, 1, Len(digits) - 1)) + DigitValue[digits[Len(digits)]]

RECURSIVE Pow10(_)
Pow10(k) == IF k = 0 THEN 1 ELSE 10 * Pow10(k - 1)

\* str::parse::<f64> on a lexeme of digits with at most one '.'
ParseNumber(lexeme) ==
    LET dots == {i \in 1..Len(lexeme) : lexeme[i] = "."}
        digits == SelectSeq(lexeme, LAMBDA ch : ch # ".")
    IN IF digits = <<>> \/ Cardinality(dots) > 1 \/ \E i \in 1..Len(digits) : digits[i] \notin Digits
       THEN [ok |-> FALSE, value |-> NaN]
       ELSE [ok |-> TRUE,
             value |-> Norm(1, DigitsValue(digits),
                            IF dots = {} THEN 1
                            ELSE Pow10(Len(lexeme) - (CHOOSE i \in dots : TRUE)))]

\* number that emits no CONSTANT for the literal
number_silent(c) == c

number(c) ==
    IF c.previous # NoToken
    THEN LET r == ParseNumber(c.previous.lexeme)
         IN IF r.ok THEN emit_constant(c, from_number(r.value))
            ELSE error_at_current(c, "Unable to parse value to number.")
    ELSE c

RECURSIVE parse_precedence(_, _)

expression(c) == parse_precedence(c, PrecAssignment)

grouping(c) == consume(expression(c), "RightParen", "Expect ')' after expression.")

\* `match operator_type { .. }` of unary; c1 is the compiler after the operand
unary_emit(c1, operator_type) ==
    CASE operator_type = "Minus" -> emit_byte(c1, OpNegate)
      [] operator_type = None -> error_at_current(c1, "No unary operator found.")
      [] OTHER -> c1

\* unary with the operand parsed at Term precedence
unary_term(c) ==
    unary_emit(parse_precedence(c, PrecTerm),
               IF c.previous # NoToken THEN c.previous.ttype ELSE None)

unary(c) ==
    unary_emit(parse_precedence(c, PrecUnary),
               IF c.previous # NoToken THEN c.previous.ttype ELSE None)

\* `match operator_type { .. }` of binary; c1 is the compiler after the
\* right operand
binary_emit(c1, operator_type) ==
    CASE operator_type = "Plus" -> emit_byte(c1, OpAdd)
      [] operator_type = "Minus" -> emit_byte(c1, OpSubtract)
      [] operator_type = "Star" -> emit_byte(c1, OpMultiply)
      [] operator_type = "Slash" -> emit_byte(c1, OpDivide)
      [] OTHER -> c1

binary(c) ==
    IF c.previous # NoToken
    THEN LET operator_type == c.previous.ttype
             prec == byte_to_prec(get_rule(operator_type).precedence + 1)
         IN binary_emit(IF prec # -1 THEN parse_precedence(c, prec)
                        ELSE error_at_current(c, "Invalid conversion to precedence"),
                        operator_type)
    ELSE c

\* calls the parse function a rule names
ParseFn(name, c) ==
    CASE name = "grouping" -> grouping(c)
      [] name = "unary" -> unary(c)
      [] name = "number" -> number(c)
      [] name = "binary" -> binary(c)

\* the condition under which the `while let Some(current)` loop of
\* parse_precedence runs its body once more
infix_continues(c, precedence) ==
    /\ c.status = "ok"
    /\ c.current # NoToken
    /\ ~(precedence > get_rule(c.current.ttype).precedence)

\* the body of that loop
\* the body of that loop after its advance()
infix_call(c1) ==
    IF c1.previous # NoToken
    THEN IF get_rule(c1.previous.ttype).infix # None
         THEN ParseFn(get_rule(c1.previous.ttype).infix, c1)
         ELSE error_at_current(c1, "Expect expression.")
    ELSE c1

\* the body of the loop without its advance()
infix_body_staying(c) == infix_call(c)

infix_body(c) == infix_call(advance(c))

\* at most n iterations of the loop, evaluated by halving so that a long
\* run of operators does not nest the evaluation as deep as it is long
RECURSIVE infix_iterations(_, _, _)
infix_iterations(c, precedence, n) ==
    IF ~infix_continues(c, precedence) THEN c
    ELSE IF n = 1 THEN infix_body(c)
    ELSE infix_iterations(infix_iterations(c, precedence, n \div 2), precedence,
                          n - (n \div 2))

\* the loop after the iterations the model evaluates: a loop that would run
\* on is recorded
infix_exit(c1, precedence) ==
    IF infix_continues(c1, precedence) THEN [c1 EXCEPT !.looping = TRUE] ELSE c1

\* as many iterations as there are characters left, plus one for `current`
infix_loop(c, precedence) ==
    infix_exit(infix_iterations(c, precedence,
                                Len(c.scanner.source) - c.scanner.current + 1),
               precedence)

\* parse_precedence after its first advance()
prefix_call(c1, precedence) ==
    IF c1.previous # NoToken
    THEN IF get_rule(c1.previous.ttype).prefix # None
         THEN infix_loop(ParseFn(get_rule(c1.previous.ttype).prefix, c1), precedence)
         ELSE error_at_current(c1, "Expect expression.")
    ELSE c1

parse_precedence(c, precedence) ==
    IF c.status # "ok" THEN c ELSE prefix_call(advance(c), precedence)

\* Compiler::end after emit_return(); listed is what dissasemble returns
print_code(c1, listed) ==
    IF DEBUG_PRINT_CODE /\ ~c1.had_error /\ c1.status = "ok" /\ c1.compiling_chunk # <<>>
    THEN IF Panicked(listed) THEN [c1 EXCEPT !.status = listed] ELSE c1
    ELSE c1

end(c) ==
    print_code(emit_return(c),
               IF emit_return(c).compiling_chunk # <<>>
               THEN dissasemble(emit_return(c).compiling_chunk[1])
               ELSE "ok")

\* the four calls shared by to_chunk and to_file
compile(c) == end(consume(expression(advance(c)), "EOF", "Expect end of expression."))

\* returns the compiler after the call and the Option<Chunk> it yields
\* `self.compiling_chunk.take()`
take_chunk(c1) ==
    [compiler |-> [c1 EXCEPT !.compiling_chunk = <<>>], chunk |-> c1.compiling_chunk]

to_chunk(c, chunk) ==
    take_chunk(compile([c EXCEPT !.had_error = FALSE, !.panic_mode = FALSE,
                                 !.compiling_chunk = <<chunk>>]))

\* Compiler::to_file: File::create(path) has given an empty file; the
\* compiler it returns holds the bytes written in compiling_file
to_file(c) == compile([c EXCEPT !.compiling_file = <<<<>>>>])

\* ------------------------------------------------------------------------
\* Vm::interpret_op_code: rebuilding a chunk from a byte file (vm.rs)
\* ------------------------------------------------------------------------
\* the `for op in op_code` loop: bytes are taken in pairs (instruction, line)
RECURSIVE PairBytes(_, _, _, _)
PairBytes(op_code, previous, instructions, lines) ==
    IF op_code = <<>> THEN [instructions |-> instructions, lines |-> lines]
    ELSE IF previous # <<>>
         THEN PairBytes(Tail(op_code), <<>>, Append(instructions, previous[1]),
                        Append(lines, Head(op_code)))
         ELSE PairBytes(Tail(op_code), <<Head(op_code)>>, instructions, lines)

\* the `loop` over instructions; r is [status, chunk]
RECURSIVE BuildChunk(_, _, _, _, _)
BuildChunk(instructions, lines, i, r, checks) ==
    IF r.status # "ok" \/ i = Len(instructions) THEN r
    ELSE LET current == instructions[i + 1]
         IN IF current = 1
            THEN IF i + 1 < Len(instructions)
                 THEN LET a == add_constant(r.chunk,
                                            from_number(NumInt(instructions[i + 2])), checks)
                      IN BuildChunk(instructions, lines, i + 2,
                                    [status |-> a.status,
                                     chunk |-> IF a.status # "ok" THEN a.chunk
                                               ELSE write_byte(write_instruction(a.chunk, OpConstant,
                                                                                 lines[i + 1]),
                                                               a.index, lines[i + 2])],
                                    checks)
                 ELSE BuildChunk(instructions, lines, i + 1, r, checks)
            ELSE BuildChunk(instructions, lines, i + 1,
                            [r EXCEPT !.chunk = write_byte(@, current, lines[i + 1])], checks)

LoadOpCode(op_code, checks) ==
    LET p == PairBytes(op_code, <<>>, <<>>, <<>>)
    IN BuildChunk(p.instructions, p.lines, 0, [status |-> "ok", chunk |-> NewChunk], checks)

\* ------------------------------------------------------------------------
\* State
\* ------------------------------------------------------------------------
VARIABLES
    vm,               \* the Vm: chunk, stack, ip
    offset,           \* the local `offset` of Vm::run
    result,           \* "none" before the first call, "running" inside Vm::run,
                      \* else how the last interpret_* call ended
    out,              \* what the current interpret_* call has printed
    compiler,         \* had_error, panic_mode and the number of tokens consumed
                      \* of the Compiler of the last interpret_source call
    pending,          \* the inputs the driver still hands to the Vm
    input,            \* the argument of the current (or last) interpret_* call
    overflow_checks,  \* build profile: TRUE when integer overflow panics
    scanner,          \* a Scanner whose scan_token is called again and again
    returned          \* the tokens these calls have returned

vars == <<vm, offset, result, out, compiler, pending, input, overflow_checks, scanner,
          returned>>

SourceInput(source) == [kind |-> "source", data |-> source]

OpCodeInput(op_code) == [kind |-> "op_code", data |-> op_code]

\* a source to compile to a file (main.rs compile_file), and the file
\* compile_source has read back, which the driver then hands to run_bin
CompileInput(source) == [kind |-> "compile", data |-> source]

CompiledInput(op_code, source) == [kind |-> "op_code", data |-> op_code, source |-> source]

NoCompiler ==
    [had_error |-> FALSE, panic_mode |-> FALSE, consumed |-> 0, scans |-> 0,
     looping |-> FALSE]

InitWith(inputs) ==
    /\ vm = NewVm
    /\ offset = 0
    /\ result = "none"
    /\ out = <<>>
    /\ compiler = NoCompiler
    /\ pending \in inputs
    /\ input = [kind |-> "none", data |-> <<>>]
    /\ overflow_checks \in BOOLEAN
    /\ scanner = NewScanner(<<>>)
    /\ returned = <<>>

Idle == result # "running" /\ ~Panicked(result)

\* interpret_source after compiler.to_chunk(chunk) has returned r
Compiled(r) ==
    /\ compiler' = [had_error |-> r.compiler.had_error,
                    panic_mode |-> r.compiler.panic_mode,
                    consumed |-> r.compiler.consumed,
                    scans |-> r.compiler.scans,
                    looping |-> r.compiler.looping]
    /\ out' = r.compiler.out
    /\ IF Panicked(r.compiler.status)
       THEN /\ vm' = [vm EXCEPT !.stack = <<>>]
            /\ result' = r.compiler.status
            /\ offset' = offset
       ELSE IF r.chunk = <<>>
            THEN /\ vm' = [vm EXCEPT !.stack = <<>>]
                 /\ result' = "InterpretCompileError"
                 /\ offset' = offset
            ELSE /\ vm' = [chunk |-> r.chunk, stack |-> <<>>, ip |-> 0]
                 /\ result' = "running"
                 /\ offset' = 0

\* Vm::interpret_source up to the call of run()
InterpretSource ==
    /\ Idle
    /\ pending # <<>>
    /\ Head(pending).kind = "source"
    /\ Compiled(to_chunk(NewCompiler(Head(pending).data, overflow_checks), NewChunk))
    /\ pending' = Tail(pending)
    /\ input' = Head(pending)
    /\ UNCHANGED <<overflow_checks, scanner, returned>>

\* Loaded without the reset_stack() at the entry of interpret_op_code
Loaded_keeping_stack(r) ==
    IF Panicked(r.status)
    THEN /\ vm' = vm
         /\ result' = r.status
         /\ offset' = offset
    ELSE /\ vm' = [chunk |-> <<r.chunk>>, stack |-> vm.stack, ip |-> 0]
         /\ result' = "running"
         /\ offset' = 0

\* interpret_op_code after its loops have built r.chunk
Loaded(r) ==
    IF Panicked(r.status)
    THEN /\ vm' = [vm EXCEPT !.stack = <<>>]
         /\ result' = r.status
         /\ offset' = offset
    ELSE /\ vm' = [chunk |-> <<r.chunk>>, stack |-> <<>>, ip |-> 0]
         /\ result' = "running"
         /\ offset' = 0

\* Vm::interpret_op_code up to the call of run()
InterpretOpCode ==
    /\ Idle
    /\ pending # <<>>
    /\ Head(pending).kind = "op_code"
    /\ Loaded(LoadOpCode(Head(pending).data, overflow_checks))
    /\ out' = <<>>
    /\ pending' = Tail(pending)
    /\ input' = Head(pending)
    /\ UNCHANGED <<compiler, overflow_checks, scanner, returned>>

Machine == [chunk |-> vm.chunk, stack |-> vm.stack, ip |-> vm.ip, offset |-> offset,
            out |-> out, status |-> "run"]

\* the Vm after an iteration that has left the machine m
Ran(m) ==
    /\ vm' = [chunk |-> m.chunk, stack |-> m.stack, ip |-> m.ip]
    /\ offset' = m.offset
    /\ out' = m.out
    /\ result' = IF m.status = "run" THEN "running" ELSE m.status

\* one iteration of the loop of Vm::run
RunStep ==
    /\ result = "running"
    /\ \E ga \in GarbageNumbers, gb \in GarbageNumbers :
          Ran(run_iteration(Machine, overflow_checks, ga, gb))
    /\ UNCHANGED <<compiler, pending, input, overflow_checks, scanner, returned>>

Next == InterpretSource \/ InterpretOpCode \/ RunStep

\* the scanner after a call of scan_token that has returned r.token
Scanned(r) ==
    /\ scanner' = r.scanner
    /\ returned' = Append(returned, r.token)

\* one call of Scanner::scan_token, as Compiler::advance makes it
ScanToken ==
    /\ Len(returned) < Len(scanner.source) + MaxScanExtra
    /\ Scanned(scan_token(scanner))
    /\ UNCHANGED <<vm, offset, result, out, compiler, pending, input, overflow_checks>>

NextScan == ScanToken

\* compile_source after compiler.to_file(path) has returned the compiler c1
Filed(c1) ==
    /\ compiler' = [had_error |-> c1.had_error, panic_mode |-> c1.panic_mode,
                    consumed |-> c1.consumed, scans |-> c1.scans,
                    looping |-> c1.looping]
    /\ out' = c1.out
    /\ IF Panicked(c1.status)
       THEN /\ result' = c1.status
            /\ pending' = Tail(pending)
       ELSE /\ result' = result
            /\ pending' = <<CompiledInput(c1.compiling_file[1], Head(pending).data)>>
                               \o Tail(pending)

\* main.rs compile_source: the source is compiled to a file and the bytes
\* of the file are read back
CompileFile ==
    /\ Idle
    /\ pending # <<>>
    /\ Head(pending).kind = "compile"
    /\ Filed(to_file(NewCompiler(Head(pending).data, overflow_checks)))
    /\ input' = Head(pending)
    /\ UNCHANGED <<vm, offset, overflow_checks, scanner, returned>>

NextFile == CompileFile \/ InterpretOpCode \/ RunStep

\* ------------------------------------------------------------------------
\* Inputs and specifications
\* ------------------------------------------------------------------------
\* all sequences over `alphabet` of length at most n
Strings(alphabet, n) == UNION {[1..k -> alphabet] : k \in 0..n}

\* characters of arithmetic sources
ArithChars == {"2", "+", "-", "*", "/", "(", ")"}

\* a byte file of k (instruction, line) pairs
RECURSIVE Interleave(_, _)
Interleave(instructions, lines) ==
    IF instructions = <<>> THEN <<>>
    ELSE <<Head(instructions), Head(lines)>> \o Interleave(Tail(instructions), Tail(lines))

\* instruction bytes of byte files: RETURN, CONSTANT (and its inline value),
\* NEGATE, ADD, TRUE and a byte that is no opcode
InvalidOp == U8Range - 1
VmBytes == {OpReturn, OpConstant, OpNegate, OpAdd, OpTrue, InvalidOp}

OpCodeFiles(bytes, lineNumbers, n) ==
    UNION {{Interleave(i, l) : i \in [1..k -> bytes], l \in [1..k -> lineNumbers]} : k \in 0..n}

ArithInputs(n) ==
    {<<SourceInput(src)>> : src \in Strings(ArithChars, n)}
        \cup {<<OpCodeInput(<<OpReturn, 1>>)>>}

VmInputs(n) ==
    {<<OpCodeInput(f)>> : f \in OpCodeFiles(VmBytes, {1}, n)}
        \cup {<<OpCodeInput(f)>> : f \in OpCodeFiles(VmBytes, {1, 2}, 2)}
        \cup {<<SourceInput(<<"2", "+">>)>>}

\* "+1" k times
RECURSIVE PlusOnes(_)
PlusOnes(k) ==
    IF k = 0 THEN <<>>
    ELSE IF k = 1 THEN <<"+", "1">>
    ELSE PlusOnes(k \div 2) \o PlusOnes(k - (k \div 2))

\* "2+1+1+...+1" with n literals
LongSum(n) == <<"2">> \o PlusOnes(n - 1)

PoolInputs(m) ==
    {<<SourceInput(LongSum(n))>> : n \in (m - 2)..m}
        \cup {<<OpCodeInput(<<OpReturn, 1>>)>>}

Init == InitWith(ArithInputs(MaxSrcLen))

Spec == Init /\ [][Next]_vars

InitVm == InitWith(VmInputs(MaxOps))

SpecVm == InitVm /\ [][Next]_vars

InitPool == InitWith(PoolInputs(MaxLiterals))

SpecPool == InitPool /\ [][Next]_vars

\* instruction bytes of byte files with nil and booleans: RETURN, CONSTANT
\* (and its inline value), NIL, TRUE, NOT, EQUAL and a byte that is no opcode;
\* also the files of at most one pair with a trailing unpaired byte
LogicBytes == {OpReturn, OpConstant, OpNil, OpTrue, OpNot, OpEqual, InvalidOp}

LogicInputs(n) ==
    {<<OpCodeInput(f)>> : f \in OpCodeFiles(LogicBytes, {1}, n)}
        \cup {<<OpCodeInput(f \o <<byte>>)>> :
                 f \in OpCodeFiles(LogicBytes, {1}, 1), byte \in LogicBytes}
        \cup {<<SourceInput(src)>> : src \in {<<"2", "+", "2">>, <<"(", "2">>}}

InitLogic == InitWith(LogicInputs(MaxLogicOps))

SpecLogic == InitLogic /\ [][Next]_vars

\* characters of sources that negate a literal
BangChars == {"!", "0", "n", "i", "l"}

BangSources ==
    {<<"!", "n", "i", "l">>, <<"!", "f", "a", "l", "s", "e">>, <<"!", "0">>,
     <<"!", "t", "r", "u", "e">>}

BangInputs(n) ==
    {<<SourceInput(src)>> : src \in Strings(BangChars, n) \cup BangSources}
        \cup {<<OpCodeInput(<<OpTrue, 1, OpNot, 1, OpReturn, 1>>)>>}

InitBang == InitWith(BangInputs(MaxBangLen))

SpecBang == InitBang /\ [][Next]_vars

\* two calls on one Vm: a first input (byte files with line 1, a source)
\* and then a second input (byte files with line 2, a source)
ReuseBytes == {OpReturn, OpConstant, OpTrue, OpAdd, InvalidOp}

ReuseInputs(n) ==
    {<<first, second>> :
        first \in {OpCodeInput(f) : f \in OpCodeFiles(ReuseBytes, {1}, n)}
                      \cup {SourceInput(<<"2", "+", "2">>), SourceInput(<<"(", "2">>)},
        second \in {OpCodeInput(f) : f \in OpCodeFiles(ReuseBytes, {2}, n)}
                       \cup {SourceInput(<<"-", "2">>)}}

InitReuse == InitWith(ReuseInputs(MaxReuseOps))

SpecReuse == InitReuse /\ [][Next]_vars

\* characters of sources with error tokens: an unterminated string, a
\* character scan_token has no arm for, a NUL that ends the input early
CompileChars == {"2", "+", "(", ")", "/", "\"", "#", NUL}

CompileInputs(n) ==
    {<<SourceInput(src)>> : src \in Strings(CompileChars, n)}
        \cup {<<OpCodeInput(<<OpReturn, 1>>)>>}

InitCompile == InitWith(CompileInputs(MaxCompileLen))

SpecCompile == InitCompile /\ [][Next]_vars

\* sources that are compiled to a file, the file then being executed
FileInputs(n) == {<<CompileInput(src)>> : src \in Strings(ArithChars, n)}

InitFile == InitWith(FileInputs(MaxFileSrcLen))

SpecFile == InitFile /\ [][NextFile]_vars

\* characters of sources with strings, comments and numbers with a fraction;
\* NUL ends the input, "#" is a character scan_token has no arm for
ScanChars == {"a", "2", ".", "\"", "/", "*", NL, " ", NUL, "#"}

InitScan ==
    /\ vm = NewVm
    /\ offset = 0
    /\ result = "none"
    /\ out = <<>>
    /\ compiler = NoCompiler
    /\ pending = <<>>
    /\ input = [kind |-> "none", data |-> <<>>]
    /\ overflow_checks = FALSE
    /\ scanner \in {NewScanner(source) : source \in Strings(ScanChars, MaxScanLen)}
    /\ returned = <<>>

SpecScan == InitScan /\ [][NextScan]_vars

\* ------------------------------------------------------------------------
\* Standard infix arithmetic: the grammar the claims refer to
\*     expr   ::= term   { ("+" | "-") term }
\*     term   ::= factor { ("*" | "/") factor }
\*     factor ::= NUMBER | "(" expr ")" | "-" factor      (the last if withUnary)
\* A parse result is [ok, next, value, rpn]: next is the index of the first
\* token not read, value the number the phrase denotes, rpn its opcodes in
\* postfix order (operands left to right, then the operator).
\* ------------------------------------------------------------------------
\* the tokens of a source up to and including the first EOF; t is
\* [scanner, tokens, done]
RECURSIVE TokenIterations(_, _)
TokenIterations(t, n) ==
    IF t.done THEN t
    ELSE IF n = 1
         THEN LET r == scan_token(t.scanner)
              IN [scanner |-> r.scanner, tokens |-> Append(t.tokens, r.token),
                  done |-> r.token.ttype = "EOF"]
         ELSE TokenIterations(TokenIterations(t, n \div 2), n - (n \div 2))

Tokens(source) ==
    TokenIterations([scanner |-> NewScanner(source), tokens |-> <<>>, done |-> FALSE],
                    Len(source) + 1).tokens

RefFail == [ok |-> FALSE, next |-> 0, value |-> NaN, rpn |-> <<>>]

RefBinary(ttype, x, y) ==
    CASE ttype = "Plus" -> [value |-> NumAdd(x, y), op |-> "OpAdd"]
      [] ttype = "Minus" -> [value |-> NumSub(x, y), op |-> "OpSubtract"]
      [] ttype = "Star" -> [value |-> NumMul(x, y), op |-> "OpMultiply"]
      [] ttype = "Slash" -> [value |-> NumDiv(x, y), op |-> "OpDivide"]

RECURSIVE RefExpr(_, _, _)
RECURSIVE RefFactor(_, _, _)
RefFactor(toks, i, withUnary) ==
    CASE toks[i].ttype = "Number" ->
            [ok |-> TRUE, next |-> i + 1, value |-> ParseNumber(toks[i].lexeme).value,
             rpn |-> <<"OpConstant">>]
      [] toks[i].ttype = "LeftParen" ->
            LET e == RefExpr(toks, i + 1, withUnary)
            IN IF e.ok /\ toks[e.next].ttype = "RightParen"
               THEN [e EXCEPT !.next = @ + 1]
               ELSE RefFail
      [] toks[i].ttype = "Minus" /\ withUnary ->
            LET f == RefFactor(toks, i + 1, withUnary)
            IN IF f.ok
               THEN [f EXCEPT !.value = NumNeg(@), !.rpn = Append(@, "OpNegate")]
               ELSE RefFail
      [] OTHER -> RefFail

\* left-to-right folding of `operators` over the operands `level` parses
\* ("term": factors, "expr": terms), at most n operators
RECURSIVE RefFold(_, _, _, _, _)
RefOperand(toks, i, withUnary, level) ==
    IF level = "term" THEN RefFactor(toks, i, withUnary)
    ELSE LET f == RefFactor(toks, i, withUnary)
         IN RefFold(toks, f, withUnary, "term", Len(toks))

RefOperators(level) == IF level = "term" THEN {"Star", "Slash"} ELSE {"Plus", "Minus"}

RefFold(toks, acc, withUnary, level, n) ==
    IF ~acc.ok \/ toks[acc.next].ttype \notin RefOperators(level) THEN acc
    ELSE IF n = 1
         THEN LET right == RefOperand(toks, acc.next + 1, withUnary, level)
                  b == RefBinary(toks[acc.next].ttype, acc.value, right.value)
              IN IF right.ok
                 THEN [ok |-> TRUE, next |-> right.next, value |-> b.value,
                       rpn |-> acc.rpn \o right.rpn \o <<b.op>>]
                 ELSE RefFail
         ELSE RefFold(toks, RefFold(toks, acc, withUnary, level, n \div 2), withUnary, level,
                      n - (n \div 2))

RefExpr(toks, i, withUnary) ==
    RefFold(toks, RefOperand(toks, i, withUnary, "expr"), withUnary, "expr", Len(toks))

\* the whole source is one expression of the grammar
RefEnd(toks, e) == [e EXCEPT !.ok = e.ok /\ toks[e.next].ttype = "EOF"]

RefTokens(toks, withUnary) == RefEnd(toks, RefExpr(toks, 1, withUnary))

RefParse(source, withUnary) == RefTokens(Tokens(source), withUnary)

\* the opcodes of a code sequence, operand bytes dropped
RECURSIVE OpcodesFrom(_, _)
OpcodesFrom(code, i) ==
    IF i > Len(code) THEN <<>>
    ELSE <<byte_to_op(code[i])>>
            \o OpcodesFrom(code, IF code[i] = OpConstant THEN i + 2 ELSE i + 1)

Finished == result \in {"Ok", "InterpretCompileError", "InterpretRuntimeError"} \/ Panicked(result)

\* ------------------------------------------------------------------------
\* Claims
\* ------------------------------------------------------------------------
Diagnostics == SelectSeq(out, LAMBDA p : p.kind = "diagnostic")

\* C1: a source that is one expression over number literals, + - * / and
\* parentheses is interpreted to the end, and the one value printed is the
\* value of the expression under standard infix arithmetic (* and / bind
\* tighter than + and -, equal precedence associates to the left).
C1_ArithmeticValue ==
    (Finished /\ input.kind = "source" /\ RefParse(input.data, FALSE).ok)
        => /\ result = "Ok"
           /\ out = <<PrintValue(from_number(RefParse(input.data, FALSE).value))>>

\* C2: when a diagnostic was reported while compiling, interpret_source
\* returns InterpretCompileError and the Vm never enters its run loop.
C2_ErrorFailsCompile ==
    (input.kind = "source" /\ compiler.had_error) => result = "InterpretCompileError"

\* C8: in the code compiled from a source with unary minus, the opcodes are
\* those of the postfix form in which "-" applies to the smallest operand
\* that follows it: NEGATE comes right after that operand's code and before
\* any binary opcode that follows.
C8_UnaryBindsTighter ==
    (/\ input.kind = "source"
     /\ result # "none"
     /\ ~Panicked(result)
     /\ RefParse(input.data, TRUE).ok
     /\ \E i \in 1..Len(RefParse(input.data, TRUE).rpn) :
            RefParse(input.data, TRUE).rpn[i] = "OpNegate")
        => OpcodesFrom(vm.chunk[1].code, 1) = RefParse(input.data, TRUE).rpn \o <<"OpReturn">>

\* -2*2 was compiled to CONSTANT NEGATE CONSTANT MULTIPLY and has printed -4
C8_Witness ==
    /\ input = SourceInput(<<"-", "2", "*", "2">>)
    /\ result = "Ok"
    /\ OpcodesFrom(vm.chunk[1].code, 1) =
           <<"OpConstant", "OpNegate", "OpConstant", "OpMultiply", "OpReturn">>
    /\ out = <<PrintValue(from_number([s |-> -1, n |-> 4, d |-> 1]))>>

\* C9: between two diagnostics of one compilation a token is consumed, and a
\* compilation that ends right after a diagnostic ends with the panic flag
\* set.
C9_PanicModeSuppression ==
    input.kind = "source" =>
        /\ \A i \in 1..(Len(Diagnostics) - 1) :
               Diagnostics[i].consumed < Diagnostics[i + 1].consumed
        /\ (Diagnostics # <<>> /\ Diagnostics[Len(Diagnostics)].consumed = compiler.consumed)
               => compiler.panic_mode

\* the opcode the next iteration of the run loop executes, None when the
\* Vm is not running or the iteration ends before the dispatch
FetchedOp ==
    IF /\ result = "running"
       /\ vm.chunk # <<>>
       /\ trace(Machine).status = "run"
       /\ vm.ip < Len(vm.chunk[1].code)
    THEN byte_to_op(vm.chunk[1].code[vm.ip + 1])
    ELSE None

BinaryOps == {"OpAdd", "OpSubtract", "OpMultiply", "OpDivide", "OpGreater", "OpLess"}

TypeErrors == {"Operands must be numbers.", "Operands missing.", "Operand must be number."}

\* the step prints `text` as its first new output and leaves the run loop
\* without RETURN
Raises(text) ==
    /\ Len(out') > Len(out)
    /\ out'[Len(out) + 1] = PrintMessage(text)
    /\ result' \notin {"running", "Ok"}

\* the number literals of a source
NumberCount(source) ==
    Cardinality({i \in 1..Len(Tokens(source)) : Tokens(source)[i].ttype = "Number"})

C5_StackEmptyAfterFailure ==
    result = "InterpretRuntimeError" => vm.stack = <<>>

\* C6: no run ends in an access outside chunk.code, chunk.lines or
\* chunk.constants.
C6_NoOutOfRangeAccess ==
    input.kind = "op_code" => result # PanicIndex

\* C7: a source with n number literals compiles without a panic and without
\* a diagnostic when n <= 256, and reports a compile error when n = 257.
C7_ConstantPoolLimit ==
    (input.kind = "source" /\ result # "none")
        => /\ NumberCount(input.data) <= U8Range
                 => ~Panicked(result) /\ ~compiler.had_error
           /\ NumberCount(input.data) = U8Range + 1 => compiler.had_error

\* C10: a step that prints a runtime error message goes on to print the line
\* chunk.lines[p], p being the offset of the opcode the step has executed.
C10_RuntimeErrorLine ==
    [][(/\ result = "running"
        /\ Len(out') > Len(out)
        /\ out'[Len(out) + 1].kind = "message"
        /\ out'[Len(out) + 1].text \in TypeErrors)
          => /\ Len(out') = Len(out) + 2
             /\ vm.ip < Len(vm.chunk[1].lines)
             /\ out'[Len(out) + 2] = PrintLine(vm.chunk[1].lines[vm.ip + 1])]_vars

\* equality of two values a, b as the instruction set defines it: the same
\* kind and, for booleans and numbers, the same payload
SameValue(a, b) ==
    \/ is_nil(a) /\ is_nil(b)
    \/ is_bool(a) /\ is_bool(b) /\ a.as_union.boolean = b.as_union.boolean
    \/ is_number(a) /\ is_number(b) /\ NumEq(a.as_union.number, b.as_union.number)

BangValues ==
    (<<"!", "n", "i", "l">> :> TRUE) @@
    (<<"!", "f", "a", "l", "s", "e">> :> TRUE) @@
    (<<"!", "0">> :> FALSE) @@
    (<<"!", "t", "r", "u", "e">> :> FALSE)

\* C13: interpreting "!nil" or "!false" compiles without a diagnostic and
\* prints true, interpreting "!0" or "!true" compiles without a diagnostic
\* and prints false.
C13_BangLiterals ==
    (Finished /\ input.kind = "source" /\ input.data \in DOMAIN BangValues)
        => /\ ~compiler.had_error
           /\ result = "Ok"
           /\ \E i \in 1..Len(out) : out[i] = PrintValue(from_bool(BangValues[input.data]))

\* the bytes of the instruction set
InstructionSet ==
    {OpReturn, OpConstant, OpNegate, OpAdd, OpSubtract, OpMultiply, OpDivide,
     OpNil, OpTrue, OpFalse, OpNot, OpGreater, OpLess, OpEqual}

\* C14: when the byte at the instruction pointer is outside the instruction
\* set, the disassembler reports a decode error for it, the dispatch of the
\* run loop reports a decode error for it without touching the stack, and
\* the iteration ends the run with InterpretRuntimeError, the stack and the
\* chunk unchanged and no byte after it fetched.
C14_UnknownOpcodeHalts ==
    [][(/\ result = "running"
        /\ vm.chunk # <<>>
        /\ vm.ip < Len(vm.chunk[1].code)
        /\ vm.chunk[1].code[vm.ip + 1] \notin InstructionSet)
          => /\ result' = "InterpretRuntimeError"
             /\ vm'.stack = vm.stack
             /\ vm'.chunk = vm.chunk
             /\ vm'.ip \in {vm.ip, vm.ip + 1}
             /\ dissasemble_instruction(vm.chunk[1], vm.ip).status = "err"
             /\ \A ga \in GarbageNumbers, gb \in GarbageNumbers :
                   /\ execute(read_byte(Machine), overflow_checks, ga, gb).status
                          = "InterpretRuntimeError"
                   /\ execute(read_byte(Machine), overflow_checks, ga, gb).stack = vm.stack
                   /\ execute(read_byte(Machine), overflow_checks, ga, gb).ip = vm.ip + 1]_vars

\* TRUE, <no opcode>, TRUE has stopped at the second byte with one value pushed
C14_Witness ==
    /\ input = OpCodeInput(<<OpTrue, 1, InvalidOp, 1, OpTrue, 1>>)
    /\ result = "InterpretRuntimeError"
    /\ vm.ip = 1
    /\ vm.stack = <<from_bool(TRUE)>>

\* the machine with which run() starts when a Vm that has run nothing is
\* handed the input i
FreshStart(i, checks) ==
    IF i.kind = "op_code"
    THEN [chunk |-> <<LoadOpCode(i.data, checks).chunk>>, stack |-> <<>>, ip |-> 0,
          offset |-> 0, out |-> <<>>, status |-> "run"]
    ELSE [chunk |-> to_chunk(NewCompiler(i.data, checks), NewChunk).chunk,
          stack |-> <<>>, ip |-> 0, offset |-> 0,
          out |-> to_chunk(NewCompiler(i.data, checks), NewChunk).compiler.out,
          status |-> "run"]

\* the machines a run that starts with m passes through in at most `fuel`
\* iterations
RECURSIVE FreshReach(_, _, _)
FreshReach(m, checks, fuel) ==
    {m} \cup
        IF m.status # "run" \/ fuel = 0 THEN {}
        ELSE UNION {FreshReach(run_iteration(m, checks, ga, gb), checks, fuel - 1) :
                        ga \in GarbageNumbers, gb \in GarbageNumbers}

\* C15: whatever the previous calls on the same Vm did, an interpret_source
\* or interpret_op_code call that reaches run() starts it with the
\* instruction pointer 0, an empty stack and the chunk of its own input, as
\* a Vm that has run nothing does, and every later iteration leaves a
\* machine (stack, ip, output, result) that the same call on such a Vm
\* passes through.
C15_RunsAsOnFreshVm ==
    [][/\ (pending' # pending /\ result' = "running")
            => /\ vm'.ip = 0
               /\ vm'.stack = <<>>
               /\ [chunk |-> vm'.chunk, stack |-> vm'.stack, ip |-> vm'.ip,
                   offset |-> offset', out |-> out', status |-> "run"]
                      = FreshStart(input', overflow_checks)
       /\ (pending' = pending /\ result = "running")
            => [chunk |-> vm'.chunk, stack |-> vm'.stack, ip |-> vm'.ip,
                offset |-> offset', out |-> out',
                status |-> IF result' = "running" THEN "run" ELSE result']
                   \in FreshReach(FreshStart(input, overflow_checks), overflow_checks,
                                  Len(FreshStart(input, overflow_checks).chunk[1].code) + 1)]_vars

\* the second call on the Vm, the byte file TRUE RETURN with line 2, has
\* printed true and emptied the stack
C15_Witness ==
    /\ pending = <<>>
    /\ input = OpCodeInput(<<OpTrue, 2, OpReturn, 2>>)
    /\ result = "Ok"
    /\ out = <<PrintValue(from_bool(TRUE))>>
    /\ vm.stack = <<>>

\* C16: the chunk the compiler has filled or interpret_op_code has rebuilt
\* has as many line entries as code bytes; on it write_byte and
\* write_instruction each append exactly one byte and exactly one line
\* entry, and add_constant changes neither sequence.
C16_LinesMatchCode ==
    vm.chunk # <<>>
        => /\ Len(vm.chunk[1].lines) = Len(vm.chunk[1].code)
           /\ \A byte \in {OpReturn, InvalidOp}, line \in {1, 2} :
                 /\ write_byte(vm.chunk[1], byte, line).code
                        = Append(vm.chunk[1].code, byte)
                 /\ write_byte(vm.chunk[1], byte, line).lines
                        = Append(vm.chunk[1].lines, line)
                 /\ write_instruction(vm.chunk[1], byte, line).code
                        = Append(vm.chunk[1].code, byte)
                 /\ write_instruction(vm.chunk[1], byte, line).lines
                        = Append(vm.chunk[1].lines, line)
           /\ add_constant(vm.chunk[1], from_nil, overflow_checks).chunk.code
                  = vm.chunk[1].code
           /\ add_constant(vm.chunk[1], from_nil, overflow_checks).chunk.lines
                  = vm.chunk[1].lines

\* a chunk rebuilt from the byte file CONSTANT 7, NIL, RETURN: four code
\* bytes and four line entries
C16_Witness ==
    /\ input = OpCodeInput(<<OpConstant, 1, OpNil, 1, OpNil, 1, OpReturn, 1>>)
    /\ vm.chunk # <<>>
    /\ vm.chunk[1].code = <<OpConstant, 0, OpNil, OpReturn>>
    /\ vm.chunk[1].lines = <<1, 1, 1, 1>>

\* C17: the chunk Compiler::to_chunk hands to the Vm ends with the byte of
\* RETURN, and of the opcodes of the chunk (operand bytes skipped) the last
\* one is RETURN and no other one is.
C17_SingleTrailingReturn ==
    (input.kind = "source" /\ vm.chunk # <<>>)
        => /\ Len(vm.chunk[1].code) >= 1
           /\ vm.chunk[1].code[Len(vm.chunk[1].code)] = OpReturn
           /\ OpcodesFrom(vm.chunk[1].code, 1)[Len(OpcodesFrom(vm.chunk[1].code, 1))]
                  = "OpReturn"
           /\ Cardinality({i \in 1..Len(OpcodesFrom(vm.chunk[1].code, 1)) :
                              OpcodesFrom(vm.chunk[1].code, 1)[i] = "OpReturn"}) = 1

\* "2+2" has been compiled to CONSTANT 0, CONSTANT 1, ADD, RETURN: the
\* operand 0 of the first CONSTANT is the byte of RETURN and is no opcode
C17_Witness ==
    /\ input = SourceInput(<<"2", "+", "2">>)
    /\ vm.chunk # <<>>
    /\ vm.chunk[1].code = <<OpConstant, 0, OpConstant, 1, OpAdd, OpReturn>>

\* the steps of a full-chunk listing from `offset` on: the offset of each
\* call of dissasemble_instruction and what the call returns
RECURSIVE Listing(_, _, _)
Listing(chunk, from, fuel) ==
    IF fuel = 0 \/ from >= Len(chunk.code) THEN <<>>
    ELSE <<[offset |-> from, step |-> dissasemble_instruction(chunk, from)]>>
            \o IF dissasemble_instruction(chunk, from).status = "ok"
               THEN Listing(chunk, dissasemble_instruction(chunk, from).next, fuel - 1)
               ELSE <<>>

\* the operand bytes that follow an opcode byte
Arity(byte) == IF byte = OpConstant THEN 1 ELSE 0

\* the listing L of the chunk decodes every instruction once, in the order
\* of emission, and ends at the end of the code
ListingWalks(chunk, L) ==
    /\ L # <<>>
    /\ L[1].offset = 0
    /\ \A i \in 1..Len(L) :
          /\ L[i].step.status = "ok"
          /\ L[i].step.next = L[i].offset + 1 + Arity(chunk.code[L[i].offset + 1])
          /\ i < Len(L) => L[i].offset < L[i + 1].offset /\ L[i + 1].offset = L[i].step.next
    /\ L[Len(L)].step.next = Len(chunk.code)
    /\ [i \in 1..Len(L) |-> byte_to_op(chunk.code[L[i].offset + 1])]
           = OpcodesFrom(chunk.code, 1)

\* the source is a number, "+", a number
IsSum(tokens) ==
    /\ Len(tokens) = 4
    /\ [i \in 1..4 |-> tokens[i].ttype] = <<"Number", "Plus", "Number", "EOF">>

\* the listing L shows CONSTANT a, CONSTANT b, ADD, RETURN for the tokens a + b
ListsSum(chunk, L, tokens) ==
    /\ [i \in 1..Len(L) |-> byte_to_op(chunk.code[L[i].offset + 1])]
           = <<"OpConstant", "OpConstant", "OpAdd", "OpReturn">>
    /\ chunk.constants[chunk.code[L[1].offset + 2] + 1]
           = from_number(ParseNumber(tokens[1].lexeme).value)
    /\ chunk.constants[chunk.code[L[2].offset + 2] + 1]
           = from_number(ParseNumber(tokens[3].lexeme).value)

\* C18: the full listing of a compiled chunk succeeds; each of its steps
\* returns its offset + 1 + the number of operand bytes of the opcode, so
\* the offsets increase strictly; the steps visit the instructions of the
\* chunk once each in the order of emission and end at code.length; for a
\* source a + b the listing is CONSTANT a, CONSTANT b, ADD, RETURN.
C18_ListingWalksChunk ==
    (input.kind = "source" /\ vm.chunk # <<>>)
        => /\ dissasemble(vm.chunk[1]) = "ok"
           /\ dissasemble_iterations(vm.chunk[1], [offset |-> 0, status |-> "ok"],
                                     Len(vm.chunk[1].code) + 1).offset
                  = Len(vm.chunk[1].code)
           /\ ListingWalks(vm.chunk[1],
                           Listing(vm.chunk[1], 0, Len(vm.chunk[1].code) + 1))
           /\ IsSum(Tokens(input.data))
                  => ListsSum(vm.chunk[1],
                              Listing(vm.chunk[1], 0, Len(vm.chunk[1].code) + 1),
                              Tokens(input.data))

\* "22+2" has been compiled and its listing has four steps
C18_Witness ==
    /\ input = SourceInput(<<"2", "2", "+", "2">>)
    /\ vm.chunk # <<>>
    /\ Len(Listing(vm.chunk[1], 0, Len(vm.chunk[1].code) + 1)) = 4
    /\ vm.chunk[1].constants
           = <<from_number(NumInt(22)), from_number(NumInt(2))>>

\* C19: once a call of scan_token has returned an EOF token, the next call
\* on the same scanner returns an EOF token too.
C19_EofForever ==
    [][(returned # <<>> /\ returned[Len(returned)].ttype = "EOF" /\ returned' # returned)
          => /\ Len(returned') = Len(returned) + 1
             /\ returned'[Len(returned')].ttype = "EOF"]_vars

\* a source that ends inside a string: the error token, then EOF three times
C19_Witness ==
    /\ scanner.source = <<"a", "\"", "a">>
    /\ [i \in 1..Len(returned) |-> returned[i].ttype]
           = <<"Identifier", "Error", "EOF", "EOF", "EOF">>

\* a "*/" at or after position i
Closes(source, i) ==
    \E j \in i..(Len(source) - 1) : source[j] = "*" /\ source[j + 1] = "/"

\* the source with every comment replaced by spaces, newlines kept: a line
\* comment runs from "//" to the end of the line, a block comment from "/*"
\* to the first "*/" after it, and neither starts inside a string
RECURSIVE Blanked(_, _, _)
Blanked(source, i, mode) ==
    IF i > Len(source) THEN <<>>
    ELSE CASE mode = "string" ->
                <<source[i]>>
                    \o Blanked(source, i + 1, IF source[i] = "\"" THEN "code" ELSE "string")
           [] mode = "line" ->
                IF source[i] = NL THEN <<NL>> \o Blanked(source, i + 1, "code")
                ELSE <<" ">> \o Blanked(source, i + 1, "line")
           [] mode = "block" ->
                IF source[i] = "*" /\ i < Len(source) /\ source[i + 1] = "/"
                THEN <<" ", " ">> \o Blanked(source, i + 2, "code")
                ELSE <<IF source[i] = NL THEN NL ELSE " ">>
                        \o Blanked(source, i + 1, "block")
           [] OTHER ->
                IF source[i] = "\"" THEN <<source[i]>> \o Blanked(source, i + 1, "string")
                ELSE IF source[i] = "/" /\ i < Len(source) /\ source[i + 1] = "/"
                THEN <<" ", " ">> \o Blanked(source, i + 2, "line")
                ELSE IF /\ source[i] = "/" /\ i < Len(source) /\ source[i + 1] = "*"
                        /\ Closes(source, i + 2)
                THEN <<" ", " ">> \o Blanked(source, i + 2, "block")
                ELSE <<source[i]>> \o Blanked(source, i + 1, "code")

\* C20: the tokens scan_token returns for a source, up to the first EOF, are
\* the tokens (kind, lexeme, line) of the same source with its comments
\* replaced by spaces (sources without a NUL character).
C20_CommentsSkipped ==
    (/\ \A i \in 1..Len(scanner.source) : scanner.source[i] # NUL
     /\ returned # <<>>
     /\ returned[Len(returned)].ttype = "EOF"
     /\ \A i \in 1..(Len(returned) - 1) : returned[i].ttype # "EOF")
        => returned = Tokens(Blanked(scanner.source, 1, "code"))

\* the characters scan_token has no arm for, among those of the sources
Unrecognized == {"#"}

\* the number of characters before the first NUL, where the input ends
InputEnd(source) ==
    IF \E i \in 1..Len(source) : source[i] = NUL
    THEN (CHOOSE i \in 1..Len(source) :
              source[i] = NUL /\ \A j \in 1..(i - 1) : source[j] # NUL) - 1
    ELSE Len(source)

Loads(chunk, i) ==
    IF i < Len(chunk.code) /\ chunk.code[i + 1] < Len(chunk.constants)
    THEN <<chunk.constants[chunk.code[i + 1] + 1]>>
    ELSE <<>>

\* C22: when a source compiles without a diagnostic, the chunk that
\* interpret_op_code rebuilds from the bytes to_file has written for it has
\* the code bytes of the chunk to_chunk builds for the same source (opcodes
\* and operand positions, the final RETURN included), and each CONSTANT
\* loads the same value in both.
C22_FileRoundTrip ==
    (/\ input.kind = "op_code"
     /\ "source" \in DOMAIN input
     /\ vm.chunk # <<>>
     /\ ~to_chunk(NewCompiler(input.source, overflow_checks), NewChunk).compiler.had_error
     /\ to_chunk(NewCompiler(input.source, overflow_checks), NewChunk).chunk # <<>>)
        => /\ vm.chunk[1].code
                  = to_chunk(NewCompiler(input.source, overflow_checks), NewChunk).chunk[1].code
           /\ \A i \in 1..Len(vm.chunk[1].code) :
                 Loads(vm.chunk[1], i)
                     = Loads(to_chunk(NewCompiler(input.source, overflow_checks),
                                      NewChunk).chunk[1], i)

\* the instructions of a byte file: the first byte of each pair
Instructions(op_code) == [i \in 1..(Len(op_code) \div 2) |-> op_code[2 * i - 1]]

\* from the instruction i + 1 on, every CONSTANT is followed by its operand
RECURSIVE OperandsPresent(_, _)
OperandsPresent(instructions, i) ==
    IF i >= Len(instructions) THEN TRUE
    ELSE IF instructions[i + 1] = OpConstant
         THEN i + 1 < Len(instructions) /\ OperandsPresent(instructions, i + 2)
         ELSE OperandsPresent(instructions, i + 1)

\* a byte file with a trailing unpaired byte or a CONSTANT without operand
Misaligned(op_code) ==
    \/ Len(op_code) % 2 = 1
    \/ ~OperandsPresent(Instructions(op_code), 0)

\* C23: a call of interpret_op_code on a byte file with a trailing unpaired
\* byte or with a CONSTANT that no operand follows, when it returns, returns
\* an error result.
C23_MisalignedRejected ==
    (input.kind = "op_code" /\ Misaligned(input.data) /\ Finished /\ ~Panicked(result))
        => result \in {"InterpretCompileError", "InterpretRuntimeError"}

\* the k-th token the scanner returns for the source: EOF again after EOF
TokenAt(source, k) ==
    IF k <= Len(Tokens(source)) THEN Tokens(source)[k]
    ELSE Tokens(source)[Len(Tokens(source))]

\* how a diagnostic names a token: " at end", nothing, or " at 'lexeme'"
Naming(token) ==
    CASE token.ttype = "EOF" -> <<"end">>
      [] token.ttype = "Error" -> <<>>
      [] OTHER -> <<"at">> \o token.lexeme

\* C24: an "Expect expression." diagnostic, printed when the compiler had
\* consumed k tokens, carries the line and the lexeme of the token consumed
\* last (the token k - 1 of the source, which has no prefix action), not
\* those of the token after it.
C24_DiagnosticNamesOffender ==
    (input.kind = "source" /\ result # "none")
        => \A i \in 1..Len(Diagnostics) :
              Diagnostics[i].text = "Expect expression."
                  => /\ Diagnostics[i].at
                            = Naming(TokenAt(input.data, Diagnostics[i].consumed - 1))
                     /\ Diagnostics[i].line
                            = TokenAt(input.data, Diagnostics[i].consumed - 1).line

\* C25: interpret_source of a source that is not one well-formed expression
\* followed by the end of the input (a missing ")", a missing operand,
\* tokens after the expression, no token at all) gets through the
\* compilation without a panic, with had_error set and at least one
\* diagnostic printed; for a number followed by "+" the first diagnostic is
\* "Expect expression." at end.
C25_MalformedIsDiagnosed ==
    [][(/\ pending' # pending
        /\ input'.kind = "source"
        /\ ~RefParse(input'.data, TRUE).ok)
          => /\ ~Panicked(result')
             /\ compiler'.had_error
             /\ \E i \in 1..Len(out') : out'[i].kind = "diagnostic"
             /\ [i \in 1..Len(Tokens(input'.data)) |-> Tokens(input'.data)[i].ttype]
                    = <<"Number", "Plus", "EOF">>
                   => /\ out'[1].kind = "diagnostic"
                      /\ out'[1].text = "Expect expression."
                      /\ out'[1].at = <<"end">>]_vars

\* "(2+2" has been compiled: the missing ")" is reported
C25_Witness ==
    /\ input = SourceInput(<<"(", "2", "+", "2">>)
    /\ compiler.had_error
    /\ Len(Diagnostics) = 1
    /\ Diagnostics[1].text = "Expect ')' after expression."
    /\ Diagnostics[1].at = <<"end">>

\* the walk over a code sequence, by halving: w is the position reached and
\* the positions of the opcodes passed; at most n instructions more
RECURSIVE WalkCode(_, _, _)
WalkCode(code, w, n) ==
    IF w.pos > Len(code) THEN w
    ELSE IF n = 1
         THEN [pos |-> w.pos + 1 + Arity(code[w.pos]), starts |-> w.starts \cup {w.pos}]
         ELSE WalkCode(code, WalkCode(code, w, n \div 2), n - (n \div 2))

\* the positions of the CONSTANT opcodes of a code sequence
ConstantStarts(code) ==
    {p \in WalkCode(code, [pos |-> 1, starts |-> {}], Len(code) + 1).starts :
        code[p] = OpConstant}

\* the number literals of a source, in order
Literals(source) == SelectSeq(Tokens(source), LAMBDA t : t.ttype = "Number")

\* every CONSTANT of the chunk, the k-th one counted from the start, has an
\* operand inside the pool that names the value of the k-th literal
OperandsNameLiterals(chunk, starts, literals) ==
    \A p \in starts :
        /\ p < Len(chunk.code)
        /\ chunk.code[p + 1] < Len(chunk.constants)
        /\ Cardinality({q \in starts : q <= p}) <= Len(literals)
        /\ chunk.constants[chunk.code[p + 1] + 1]
               = from_number(ParseNumber(literals[Cardinality({q \in starts : q <= p})]
                                             .lexeme).value)

\* C26: in the chunk compiled from a source, however many number literals
\* it has, the operand of every CONSTANT is an index inside the constant
\* pool and the constant at that index is the value of the literal the
\* CONSTANT was emitted for; and add_constant on that chunk returns the
\* index at which it has stored the value.
C26_OperandIsPoolIndex ==
    (input.kind = "source" /\ vm.chunk # <<>>)
        => /\ OperandsNameLiterals(vm.chunk[1], ConstantStarts(vm.chunk[1].code),
                                   Literals(input.data))
           /\ add_constant(vm.chunk[1], from_nil, overflow_checks).status = "ok"
           /\ add_constant(vm.chunk[1], from_nil, overflow_checks).index
                  = Len(vm.chunk[1].constants)

\* the value the n-th of n successive calls of pop_stack returns
RECURSIVE NthPop(_, _)
NthPop(stack, n) ==
    IF n = 1 THEN pop_stack(stack).value ELSE NthPop(pop_stack(stack).stack, n - 1)

\* C27: on the operand stack of the Vm a pop right after a push returns the
\* pushed value and restores the stack, and for every d below the depth
\* peek_stack(d) returns the value the (d + 1)-th successive pop_stack
\* would return; peek_stack(0) is the value pushed last.
C27_StackDiscipline ==
    /\ \A value \in {from_nil, from_bool(TRUE)} :
          /\ pop_stack(push_stack(vm.stack, value)).some
          /\ pop_stack(push_stack(vm.stack, value)).value = value
          /\ pop_stack(push_stack(vm.stack, value)).stack = vm.stack
          /\ peek_stack(push_stack(vm.stack, value), 0, overflow_checks).value = value
    /\ \A d \in 0..(Len(vm.stack) - 1) :
          /\ peek_stack(vm.stack, d, overflow_checks).status = "ok"
          /\ peek_stack(vm.stack, d, overflow_checks).some
          /\ peek_stack(vm.stack, d, overflow_checks).value = NthPop(vm.stack, d + 1)


\* C28: a binary opcode fetched with fewer than two values on the stack raises
\* "Operands missing.", and NEGATE fetched with an empty stack leaves the run:
\* either step ends the run with InterpretRuntimeError and an empty stack.
C28_UnderflowIsReported ==
    [][/\ (FetchedOp \in BinaryOps /\ Len(vm.stack) < 2)
            => /\ Raises("Operands missing.")
               /\ result' = "InterpretRuntimeError"
               /\ vm'.stack = <<>>
       /\ (FetchedOp = "OpNegate" /\ vm.stack = <<>>)
            => /\ result' = "InterpretRuntimeError"
               /\ vm'.stack = <<>>]_vars


\* C29: while the chunk compiled from a source without diagnostics runs, a
\* fetched binary opcode finds at least two values on the stack, a fetched
\* NEGATE or RETURN at least one and RETURN exactly one, no iteration ends in
\* a panic, and the stack is empty once the run has returned Ok.
C29_CompiledCodeNeverUnderflows ==
    (input.kind = "source" /\ ~compiler.had_error /\ result # "none")
        => /\ ~Panicked(result)
           /\ result = "running"
                 => /\ FetchedOp \in BinaryOps => Len(vm.stack) >= 2
                    /\ FetchedOp = "OpNegate" => Len(vm.stack) >= 1
                    /\ FetchedOp = "OpReturn" => Len(vm.stack) = 1
           /\ result = "Ok" => vm.stack = <<>>

\* the run of "2*-2" is about to fetch MULTIPLY with two values on the stack,
\* the negated operand on top
C29_Witness ==
    /\ input = SourceInput(<<"2", "*", "-", "2">>)
    /\ ~compiler.had_error
    /\ result = "running"
    /\ FetchedOp = "OpMultiply"
    /\ Len(vm.stack) = 2
    /\ vm.stack[1] = from_number([s |-> -1, n |-> 2, d |-> 1])


\* C30: whenever the run loop is about to start an iteration, the offset the
\* trace block hands to dissasemble_instruction equals the instruction
\* pointer of the Vm.
C30_TraceFollowsIp ==
    result = "running" => offset = vm.ip


\* a byte file that starts with CONSTANT: its first iteration has pushed the
\* constant, and trace offset and instruction pointer both stand behind the
\* operand byte
C30_Witness ==
    /\ input.kind = "op_code"
    /\ result = "running"
    /\ vm.chunk # <<>>
    /\ vm.chunk[1].code # <<>>
    /\ vm.chunk[1].code[1] = OpConstant
    /\ Len(vm.stack) = 1
    /\ vm.ip = 2
    /\ offset = 2


\* C31: to_chunk returns for every source, after at most one call of
\* scan_token per byte of the source and three more for the end of the input;
\* every call of advance() makes at least one of them, and every infix loop
\* of parse_precedence is left by its own condition.
C31_CompilationTerminates ==
    (input.kind = "source" /\ result # "none" /\ ~Panicked(result))
        => /\ compiler.scans <= Len(input.data) + 3
           /\ compiler.consumed <= compiler.scans
           /\ compiler.consumed >= 1
           /\ ~compiler.looping

\* the source #"+2 has been compiled: two error tokens (the character # and
\* the unterminated string) were scanned inside one call of advance()
C31_Witness ==
    /\ input = SourceInput(<<"#", "\"", "+", "2">>)
    /\ compiler.had_error
    /\ compiler.scans = 5
    /\ compiler.consumed = 3


\* an iteration of the run loop moves the instruction pointer forward: by two
\* over CONSTANT and its operand, by one over any other opcode when the run
\* goes on, never backwards, and never past the end of the code
IpProgress ==
    /\ vm'.chunk = vm.chunk
    /\ vm'.ip >= vm.ip
    /\ result' = "running"
          => /\ vm'.ip = vm.ip + (IF FetchedOp = "OpConstant" THEN 2 ELSE 1)
             /\ vm'.ip <= Len(vm.chunk[1].code)

\* C32: every iteration of a run moves the instruction pointer forward, by
\* two for CONSTANT and by one otherwise, so that a run over n code bytes
\* makes at most n iterations, and the run ends by returning Ok at RETURN or
\* by returning InterpretRuntimeError.
C32_RunHalts ==
    [][result = "running"
          => /\ IpProgress
             /\ result' \in {"running", "Ok", "InterpretRuntimeError"}]_vars

\* the part of C32 about the instruction pointer alone
C32_IpAdvances == [][result = "running" => IpProgress]_vars


\* the error token make_token returns when source[start..current] is no slice
OutOfBounds(token) ==
    token.ttype = "Error" /\ token.lexeme = <<"Token lexeme out of bounds.">>

\* C33: after every call of scan_token start <= current <= source.len(),
\* neither current nor the line counter is below what it was before the
\* call, and the token returned is not the "Token lexeme out of bounds"
\* error token.
C33_CursorInBounds ==
    [][/\ scanner'.start <= scanner'.current
       /\ scanner'.current <= Len(scanner'.source)
       /\ scanner'.current >= scanner.current
       /\ scanner'.line >= scanner.line
       /\ Len(returned') = Len(returned) + 1
       /\ ~OutOfBounds(returned'[Len(returned')])]_vars

\* two calls have scanned a source to its end over a line break: the cursor
\* stands at source.len() on line 2 behind a token of at least one byte
C33_Witness ==
    /\ Len(returned) = 2
    /\ scanner.source # <<>>
    /\ scanner.current = Len(scanner.source)
    /\ scanner.start < scanner.current
    /\ scanner.line = 2

====
